---- MODULE Spec2Model ----
(***************************************************************************)
(* Model of the Surf Scheduler MCP server (src/mcp-server/server.py):      *)
(* the five tools, the upstream HTTP exchange of the three forecast tools, *)
(* the two reference files and the process bootstrap.                      *)
(*                                                                         *)
(* Representation of Python values                                         *)
(*   str arguments     sequences of one-character strings                  *)
(*   float             [num, exp], the number num * 10^(-exp), exp minimal *)
(*   decoded JSON      [t, v]: t the JSON type, v the value; the keys of   *)
(*                     an object are the DOMAIN of the record v            *)
(*   f-string          the sequence of its pieces                          *)
(*   exception         [class, text]                                       *)
(***************************************************************************)
EXTENDS Integers, Sequences, FiniteSets, TLC

VARIABLES
    status,     \* the process: "starting", then what __main__ leaves it in (server.py:182-191)
    files,      \* the text of each reference file, or Missing (server.py:24-27, 38-41)
    loaded,     \* history: files as they were when the process started
    pc,         \* the tool function: "idle", "awaiting" (inside httpx.get), "done"
    call,       \* the tool invoked and its arguments lat, lng
    sent,       \* the requests the invocation has made with httpx.get
    response,   \* what httpx.get ended with
    raised,     \* history: the exceptions raised inside the invocation
    returned,   \* how the invocation ended: one Return or one Raise
    lastEvent   \* history: the kind of the last step

vars == <<status, files, loaded, pc, call, sent, response, raised, returned, lastEvent>>

(***************************************************************************)
(* Bounds                                                                  *)
(***************************************************************************)
\* longest lat / lng argument string
MaxLen == 2
\* number of distinct texts a reference file can hold
MaxDocs == 2

\* characters the argument strings are drawn from
Alphabet == {"-", ".", "0", "1", "x"}

RECURSIVE StringsUpTo(_)
StringsUpTo(n) ==
    IF n = 0 THEN {<<>>}
    ELSE LET shorter == StringsUpTo(n - 1)
         IN  shorter \cup {Append(s, c) : s \in {t \in shorter : Len(t) = n - 1}, c \in Alphabet}

ArgStrings == StringsUpTo(MaxLen)

(***************************************************************************)
(* float(str)                                                              *)
(***************************************************************************)
Digits == {"0", "1", "2", "3", "4", "5", "6", "7", "8", "9"}

DigitVal(c) ==
    CASE c = "0" -> 0 [] c = "1" -> 1 [] c = "2" -> 2 [] c = "3" -> 3 [] c = "4" -> 4
      [] c = "5" -> 5 [] c = "6" -> 6 [] c = "7" -> 7 [] c = "8" -> 8 [] c = "9" -> 9

\* the string without its sign
Unsigned(s) == IF s # <<>> /\ s[1] \in {"-", "+"} THEN Tail(s) ELSE s

\* float(s) does not raise ValueError: [sign] digits [. [digits]] or [sign] . digits.
\* This is float()'s grammar on strings over Alphabet; the spellings that need
\* other characters (surrounding whitespace, exponents, inf, nan, underscores)
\* are outside the strings explored.
CanFloat(s) ==
    LET b == Unsigned(s)
    IN  /\ \A i \in DOMAIN b : b[i] \in Digits \cup {"."}
        /\ Cardinality({i \in DOMAIN b : b[i] = "."}) <= 1
        /\ \E i \in DOMAIN b : b[i] \in Digits

\* the digits of b read as one integer, the point skipped
RECURSIVE DigitsValue(_)
DigitsValue(b) ==
    IF b = <<>> THEN 0
    ELSE LET front == SubSeq(b, 1, Len(b) - 1)
             c == b[Len(b)]
         IN  IF c = "." THEN DigitsValue(front) ELSE 10 * DigitsValue(front) + DigitVal(c)

\* number of digits after the point
FractionLen(b) ==
    IF \E i \in DOMAIN b : b[i] = "."
    THEN Len(b) - (CHOOSE i \in DOMAIN b : b[i] = ".")
    ELSE 0

\* num * 10^(-exp) with the trailing zeros of the fraction dropped
RECURSIVE Normalize(_, _)
Normalize(n, e) ==
    IF e > 0 /\ n % 10 = 0 THEN Normalize(n \div 10, e - 1) ELSE [num |-> n, exp |-> e]

float(s) ==
    LET b == Unsigned(s)
        magnitude == Normalize(DigitsValue(b), FractionLen(b))
    IN  IF s[1] = "-" THEN [num |-> 0 - magnitude.num, exp |-> magnitude.exp] ELSE magnitude

FloatValueError == [class |-> "ValueError", text |-> "could not convert string to float"]

(***************************************************************************)
(* Decoded JSON and the marker test  "latitude" not in data                *)
(***************************************************************************)
\* the str "latitude" as a JSON string value
LATITUDE == <<"l", "a", "t", "i", "t", "u", "d", "e">>

JsonString(chars) == [t |-> "string", v |-> chars]
JsonNumber(n) == [t |-> "number", v |-> n]

\* sub in s for two str: sub occurs as a contiguous slice of s
IsSubstring(sub, s) ==
    \E i \in 0..(Len(s) - Len(sub)) : SubSeq(s, i + 1, i + Len(sub)) = sub

\* the operand types for which  "latitude" in data  raises TypeError
NotIterable(data) == data.t \in {"number", "boolean", "null"}

\* "latitude" in data, by the type of data: key of a dict, element of a list,
\* substring of a str
HasMarker(data) ==
    CASE data.t = "object" -> "latitude" \in DOMAIN data.v
      [] data.t = "array" ->
            \E i \in DOMAIN data.v : data.v[i].t = "string" /\ data.v[i].v = LATITUDE
      [] data.t = "string" -> IsSubstring(LATITUDE, data.v)

MarkerTypeError == [class |-> "TypeError", text |-> "argument of type is not iterable"]

\* equality of two decoded JSON values
JsonEq(a, b) == a.t = b.t /\ a.v = b.v

\* the dict {"error": message}
ToolError(message) == [t |-> "object", v |-> [error |-> message]]

IsToolError(value) ==
    /\ value.t = "object"
    /\ DOMAIN value.v = {"error"}

HasErrorKey(value) == value.t = "object" /\ "error" \in DOMAIN value.v

(***************************************************************************)
(* What the upstream can answer                                            *)
(***************************************************************************)
NotJson == [t |-> "notjson", v |-> <<"<", "h", "t", "m", "l", ">">>]

\* decoded bodies, one or more of each JSON type
JsonBodies ==
    << [t |-> "object", v |-> [latitude |-> [num |-> 3868, exp |-> 2], daily |-> <<"time", "wave_height_max">>]],
       [t |-> "object", v |-> [latitude |-> [num |-> 3868, exp |-> 2], error |-> <<"degraded">>]],
       [t |-> "object", v |-> [unexpected |-> TRUE]],
       [t |-> "object", v |-> [error |-> <<"true">>, reason |-> <<"Latitude must be in range">>]],
       [t |-> "object", v |-> << >>],
       [t |-> "array", v |-> << >>],
       [t |-> "array", v |-> <<JsonString(LATITUDE), JsonNumber(3868)>>],
       [t |-> "array", v |-> <<JsonNumber(3868)>>],
       JsonString(LATITUDE),
       JsonString(<<"n", "o", " ">> \o LATITUDE),
       JsonString(<<"o", "k">>),
       JsonNumber(42),
       [t |-> "boolean", v |-> TRUE],
       [t |-> "null", v |-> 0] >>

NoException == [class |-> "none", text |-> ""]
ConnectError == [class |-> "ConnectError", text |-> "All connection attempts failed"]
ReadTimeout == [class |-> "ReadTimeout", text |-> "The read operation timed out"]

\* httpx.get raised before any response arrived
TransportFailure(exc) == [kind |-> "raise", exc |-> exc, status_code |-> 0, body |-> NotJson]
\* httpx.get returned a response
Response(code, body) == [kind |-> "response", exc |-> NoException, status_code |-> code, body |-> body]

NoResponse == [kind |-> "none", exc |-> NoException, status_code |-> 0, body |-> NotJson]

Outcomes ==
    << TransportFailure(ConnectError),
       TransportFailure(ReadTimeout),
       Response(404, NotJson),
       Response(503, JsonBodies[4]),
       Response(200, NotJson),
       Response(204, NotJson) >>
    \o [i \in DOMAIN JsonBodies |-> Response(200, JsonBodies[i])]

\* the subclasses of httpx.HTTPError that can reach the handler
HTTPErrorClasses == {"ConnectError", "ReadTimeout", "HTTPStatusError"}

is_success(resp) == resp.status_code \in 200..299

HTTPStatusError(resp) ==
    [class |-> "HTTPStatusError",
     text |-> IF resp.status_code \in 400..499 THEN "Client error for url" ELSE "Server error for url"]

JSONDecodeError == [class |-> "ValueError", text |-> "Expecting value: line 1 column 1 (char 0)"]

(***************************************************************************)
(* The forecast tools                                                      *)
(***************************************************************************)
JsonNone == [t |-> "null", v |-> 0]

\* how an invocation of a tool function ends: it returns a value, or an
\* exception leaves the function
Return(value) == [kind |-> "return", value |-> value, exc |-> NoException]
Raise(exc) == [kind |-> "raise", value |-> JsonNone, exc |-> exc]

Get(url, params) == [method |-> "GET", url |-> url, params |-> params]

WaveUrl == "https://marine-api.open-meteo.com/v1/marine"
WindUrl == "https://api.open-meteo.com/v1/forecast"

\* a variant with the two coordinates under each other's parameter name
WaveParamsSwapped(lat, lng) ==
    [latitude |-> float(lng), longitude |-> float(lat),
     daily |-> <<"wave_height_max", "wave_direction_dominant", "wave_period_max">>]

WaveParams(lat, lng) ==
    [latitude |-> float(lat), longitude |-> float(lng),
     daily |-> <<"wave_height_max", "wave_direction_dominant", "wave_period_max">>]

WindParams(lat, lng) ==
    [latitude |-> float(lat), longitude |-> float(lng),
     daily |-> <<"wind_speed_10m_max", "wind_gusts_10m_max", "wind_direction_10m_dominant">>]

TideParams ==
    [latitude |-> [num |-> 386756, exp |-> 4], longitude |-> [num |-> 0 - 93378, exp |-> 4],
     hourly |-> <<"sea_level_height_msl">>]

\* a variant that builds the request from the raw strings and coerces after
\* sending it
PrepareSendsFirst(lat, lng, url, params) ==
    IF CanFloat(lat) /\ CanFloat(lng)
    THEN [sent |-> <<Get(url, params)>>, raised |-> << >>]
    ELSE [sent |-> <<Get(url, [latitude |-> lat, longitude |-> lng])>>,
          raised |-> <<FloatValueError>>]

\* the params dict is built, float(lat) then float(lng), before httpx.get is
\* called: a ValueError of either leaves no request behind
Prepare(lat, lng, url, params) ==
    IF CanFloat(lat) /\ CanFloat(lng)
    THEN [sent |-> <<Get(url, params)>>, raised |-> << >>]
    ELSE [sent |-> << >>, raised |-> <<FloatValueError>>]

\* a variant whose transport message leaves the exception's text out
ExceptWithoutText(e) ==
    IF e.class \in HTTPErrorClasses
    THEN Return(ToolError(<<"API request failed.">>))
    ELSE IF e.class = "ValueError"
         THEN Return(ToolError(<<"Invalid JSON response from API.">>))
         ELSE Raise(e)

\* the except clauses: httpx.HTTPError, then ValueError; anything else leaves
\* the function
Except(e) ==
    IF e.class \in HTTPErrorClasses
    THEN Return(ToolError(<<"API request failed: ", e.text>>))
    ELSE IF e.class = "ValueError"
         THEN Return(ToolError(<<"Invalid JSON response from API.">>))
         ELSE Raise(e)

\* a variant with the marker test the wrong way round
CheckMarkerInverted(data) ==
    IF HasMarker(data) THEN ToolError(<<"Invalid API response format.">>) ELSE data

\* the marker test and the pass-through of a decoded body on which the test
\* can be evaluated
CheckMarker(data) ==
    IF ~HasMarker(data) THEN ToolError(<<"Invalid API response format.">>) ELSE data

\* the exception raised in the try block once httpx.get has ended with
\* outcome o, or NoException
TryException(o) ==
    IF o.kind = "raise" THEN o.exc
    ELSE IF ~is_success(o) THEN HTTPStatusError(o)
    ELSE IF o.body.t = "notjson" THEN JSONDecodeError
    ELSE IF NotIterable(o.body) THEN MarkerTypeError
    ELSE NoException

\* the rest of the handler after httpx.get
Complete(o) ==
    LET e == TryException(o)
    IN  IF e = NoException
        THEN [raised |-> << >>, returned |-> <<Return(CheckMarker(o.body))>>]
        ELSE [raised |-> <<e>>, returned |-> <<Except(e)>>]

ForecastTools == {"get_wave_forecast_week", "get_wind_forecast_week", "get_daily_tide_forecast"}
FileTools == {"get_surf_spots_coordinates", "get_surf_preferences"}

NoCall == [tool |-> "none", lat |-> << >>, lng |-> << >>]

\* the server is up and no invocation is in progress
Ready == status = "serving" /\ pc = "idle"

\* entry of a forecast tool up to the call of httpx.get
Enter(tool, lat, lng, prepared) ==
    /\ Ready
    /\ call' = [tool |-> tool, lat |-> lat, lng |-> lng]
    /\ sent' = prepared.sent
    /\ raised' = prepared.raised
    /\ response' = NoResponse
    /\ lastEvent' = "call"
    /\ IF prepared.raised = << >>
       THEN pc' = "awaiting" /\ returned' = << >>
       ELSE pc' = "done" /\ returned' = <<Except(prepared.raised[1])>>
    /\ UNCHANGED <<status, files, loaded>>

\* httpx.get ends with outcome o and the handler runs to its end
Resume(tool, o) ==
    /\ pc = "awaiting"
    /\ call.tool = tool
    /\ response' = o
    /\ raised' = raised \o Complete(o).raised
    /\ returned' = returned \o Complete(o).returned
    /\ pc' = "done"
    /\ lastEvent' = "response"
    /\ UNCHANGED <<status, files, loaded, call, sent>>

get_wave_forecast_week ==
    /\ Ready
    /\ \E lat \in ArgStrings, lng \in ArgStrings :
          Enter("get_wave_forecast_week", lat, lng,
                Prepare(lat, lng, WaveUrl, WaveParams(lat, lng)))

get_wave_forecast_week_response ==
    /\ pc = "awaiting"
    /\ \E i \in DOMAIN Outcomes : Resume("get_wave_forecast_week", Outcomes[i])

get_wind_forecast_week ==
    /\ Ready
    /\ \E lat \in ArgStrings, lng \in ArgStrings :
          Enter("get_wind_forecast_week", lat, lng,
                Prepare(lat, lng, WindUrl, WindParams(lat, lng)))

get_wind_forecast_week_response ==
    /\ pc = "awaiting"
    /\ \E i \in DOMAIN Outcomes : Resume("get_wind_forecast_week", Outcomes[i])

\* no arguments: the coordinates are literals and nothing is coerced
get_daily_tide_forecast ==
    /\ Ready
    /\ Enter("get_daily_tide_forecast", << >>, << >>,
             [sent |-> <<Get(WaveUrl, TideParams)>>, raised |-> << >>])

get_daily_tide_forecast_response ==
    /\ pc = "awaiting"
    /\ \E i \in DOMAIN Outcomes : Resume("get_daily_tide_forecast", Outcomes[i])

(***************************************************************************)
(* The reference files and the bootstrap                                   *)
(***************************************************************************)
\* a file that does not exist
Missing == 0
Docs == 1..MaxDocs
FileNames == {"surf-spots.json", "surf-preferences.json"}

FileNotFoundError == [class |-> "FileNotFoundError", text |-> "No such file or directory"]

\* a variant that serves the text read when the process started
ReadFileCached(name) == loaded[name]

\* f.read(): the text the file holds now
ReadFile(name) == files[name]

\* with open(path, "r") as f: return f.read()
OpenAndRead(name) ==
    IF files[name] = Missing
    THEN Raise(FileNotFoundError)
    ELSE Return([t |-> "text", v |-> ReadFile(name)])

FileTool(tool, name) ==
    /\ Ready
    /\ call' = [tool |-> tool, lat |-> << >>, lng |-> << >>]
    /\ sent' = << >>
    /\ response' = NoResponse
    /\ raised' = IF OpenAndRead(name).kind = "raise" THEN <<OpenAndRead(name).exc>> ELSE << >>
    /\ returned' = <<OpenAndRead(name)>>
    /\ pc' = "done"
    /\ lastEvent' = "call"
    /\ UNCHANGED <<status, files, loaded>>

get_surf_spots_coordinates ==
    /\ FileTool("get_surf_spots_coordinates", "surf-spots.json")

get_surf_preferences ==
    /\ FileTool("get_surf_preferences", "surf-preferences.json")

\* the transport hands the outcome of the invocation to the caller and the
\* server is ready for the next call
Deliver ==
    /\ pc = "done"
    /\ pc' = "idle"
    /\ call' = NoCall
    /\ sent' = << >>
    /\ response' = NoResponse
    /\ raised' = << >>
    /\ returned' = << >>
    /\ lastEvent' = "deliver"
    /\ UNCHANGED <<status, files, loaded>>

\* someone edits, creates or deletes a reference file
EditFile(name, content) ==
    /\ files[name] # content
    /\ files' = [files EXCEPT ![name] = content]
    /\ lastEvent' = "edit"
    /\ UNCHANGED <<status, loaded, pc, call, sent, response, raised, returned>>

\* a variant that checks the reference files before serving
BootChecksFiles == IF \E n \in FileNames : files[n] = Missing THEN "aborted" ELSE "serving"

\* what status the bootstrap leaves the process in: it binds the port and
\* serves, whatever the reference files are
Boot == "serving"

\* python server.py
Start ==
    /\ status = "starting"
    /\ status' = Boot
    /\ loaded' = files
    /\ lastEvent' = "start"
    /\ UNCHANGED <<files, pc, call, sent, response, raised, returned>>

(***************************************************************************)
(* Specifications                                                          *)
(***************************************************************************)
InitProcess ==
    /\ status = "starting"
    /\ pc = "idle"
    /\ call = NoCall
    /\ sent = << >>
    /\ response = NoResponse
    /\ raised = << >>
    /\ returned = << >>
    /\ lastEvent = "none"

\* the deployment as shipped: both reference files installed
Init ==
    /\ InitProcess
    /\ files = [n \in FileNames |-> 1]
    /\ loaded = files

\* the forecast tools against every upstream outcome
Next ==
    \/ Start
    \/ get_wave_forecast_week
    \/ get_wave_forecast_week_response
    \/ get_wind_forecast_week
    \/ get_wind_forecast_week_response
    \/ get_daily_tide_forecast
    \/ get_daily_tide_forecast_response
    \/ Deliver

Spec == Init /\ [][Next]_vars

\* any deployment: each reference file present with some text, or missing
InitStore ==
    /\ InitProcess
    /\ files \in [FileNames -> Docs \cup {Missing}]
    /\ loaded = files

\* the reference-file tools while the files are edited
NextStore ==
    \/ Start
    \/ get_surf_spots_coordinates
    \/ get_surf_preferences
    \/ \E n \in FileNames, c \in Docs \cup {Missing} : EditFile(n, c)
    \/ Deliver

StoreSpec == InitStore /\ [][NextStore]_vars

(***************************************************************************)
(* Properties                                                              *)
(***************************************************************************)
CoordinateTools == {"get_wave_forecast_week", "get_wind_forecast_week"}

\* a forecast invocation has run to its end
ForecastDone == pc = "done" /\ call.tool \in ForecastTools

\* the upstream answered 2xx with a body that decodes as JSON
DecodedBody ==
    /\ response.kind = "response"
    /\ is_success(response)
    /\ response.body.t # "notjson"

\* a decoded body with a top-level field named "latitude"
HasLatitudeField(data) == data.t = "object" /\ "latitude" \in DOMAIN data.v

\* the handler took its "latitude not found" branch
MarkerNotFound == DecodedBody /\ ~NotIterable(response.body) /\ ~HasMarker(response.body)

\* the invocation failed: an exception was raised inside it, or the marker
\* was not found
Failed == raised # << >> \/ MarkerNotFound

\* the message of an error string has the text among its pieces
Embeds(message, text) == \E i \in DOMAIN message : message[i] = text

ReturnsToolError ==
    /\ Len(returned) = 1
    /\ returned[1].kind = "return"
    /\ IsToolError(returned[1].value)

\* C1: every invocation of a forecast tool, whatever the upstream answers,
\* ends by returning the upstream payload or a ToolError; no exception leaves
\* the tool function.
C1_ReturnsPayloadOrToolError ==
    ForecastDone =>
        /\ Len(returned) = 1
        /\ returned[1].kind = "return"
        /\ \/ IsToolError(returned[1].value)
           \/ DecodedBody /\ JsonEq(returned[1].value, response.body)

\* C2: a 2xx answer whose decoded body, of whatever JSON type, has no
\* top-level field "latitude" makes the tool return exactly
\* {"error": "Invalid API response format."}, never the body itself.
C2_NoLatitudeFieldGivesFormatError ==
    (ForecastDone /\ DecodedBody /\ ~HasLatitudeField(response.body)) =>
        /\ Len(returned) = 1
        /\ returned[1].kind = "return"
        /\ JsonEq(returned[1].value, ToolError(<<"Invalid API response format.">>))
        /\ ~JsonEq(returned[1].value, response.body)

\* C3: a 2xx answer that is a JSON object with the field "latitude" is
\* returned unchanged, same fields and same values, and the marker test
\* applied to the returned value gives that value again.
C3_ValidObjectPassesThrough ==
    (ForecastDone /\ DecodedBody /\ HasLatitudeField(response.body)) =>
        /\ Len(returned) = 1
        /\ returned[1].kind = "return"
        /\ returned[1].value.t = "object"
        /\ DOMAIN returned[1].value.v = DOMAIN response.body.v
        /\ JsonEq(returned[1].value, response.body)
        /\ JsonEq(CheckMarker(returned[1].value), returned[1].value)

\* a tide invocation answered 200 with a valid object has returned it
C3_Witness ==
    /\ ForecastDone
    /\ call.tool = "get_daily_tide_forecast"
    /\ DecodedBody
    /\ HasLatitudeField(response.body)
    /\ DOMAIN returned[1].value.v = {"latitude", "daily"}

\* C4: a lat or lng that float() rejects makes the wave and wind tools return
\* a ToolError with no request sent; no invocation has both a request sent and
\* a failed coercion.
C4_BadCoordinateSendsNothing ==
    /\ (call.tool \in CoordinateTools /\ ~(CanFloat(call.lat) /\ CanFloat(call.lng))) =>
            /\ pc = "done"
            /\ sent = << >>
            /\ ReturnsToolError
    /\ sent # << >> => \A i \in DOMAIN raised : raised[i] # FloatValueError

\* lat coerces, lng does not: the invocation is over with nothing sent
C4_Witness ==
    /\ call.tool = "get_wind_forecast_week"
    /\ call.lat = <<"1">>
    /\ call.lng = <<"x">>
    /\ pc = "done"
    /\ raised = <<FloatValueError>>
    /\ sent = << >>

\* C5: the ToolError returned for a coordinate that cannot be coerced differs
\* from the ToolError returned for a 2xx answer whose body is not JSON.
C5_ArgumentErrorIsDistinct ==
    (pc = "done" /\ call.tool \in CoordinateTools /\ raised = <<FloatValueError>>) =>
        /\ ReturnsToolError
        /\ ~JsonEq(returned[1].value, Complete(Response(200, NotJson)).returned[1].value)

\* C6: an invocation of the wave or wind tool with coercible coordinates has
\* sent exactly one GET, to the tool's endpoint, with latitude the number lat
\* denotes and longitude the number lng denotes; the tide tool has sent
\* exactly one GET; no outcome of the request adds a second one.
C6_ExactlyOneRequest ==
    /\ Len(sent) <= 1
    /\ (call.tool \in CoordinateTools /\ CanFloat(call.lat) /\ CanFloat(call.lng)) =>
            /\ Len(sent) = 1
            /\ sent[1].method = "GET"
            /\ sent[1].url = (IF call.tool = "get_wave_forecast_week" THEN WaveUrl ELSE WindUrl)
            /\ sent[1].params.latitude = float(call.lat)
            /\ sent[1].params.longitude = float(call.lng)
    /\ call.tool = "get_daily_tide_forecast" =>
            /\ Len(sent) = 1
            /\ sent[1].method = "GET"
            /\ sent[1].params.latitude = [num |-> 386756, exp |-> 4]
            /\ sent[1].params.longitude = [num |-> 0 - 93378, exp |-> 4]

\* lat .1 and lng -1 went out as 0.1 and -1, once, and the request failed in transport
C6_Witness ==
    /\ pc = "done"
    /\ call.tool = "get_wave_forecast_week"
    /\ call.lat = <<".", "1">>
    /\ call.lng = <<"-", "1">>
    /\ response.kind = "raise"
    /\ Len(sent) = 1
    /\ sent[1].params.latitude = [num |-> 1, exp |-> 1]
    /\ sent[1].params.longitude = [num |-> 0 - 1, exp |-> 0]

\* the exception was caught by one of the handler's except clauses
Caught == raised # << >> /\ raised[1].class \in HTTPErrorClasses \cup {"ValueError"}

\* C7 as stated: every caught failure is returned once as a ToolError whose
\* error string embeds the text of the underlying failure.
C7_EveryFailureEmbedsItsText ==
    (ForecastDone /\ Caught) =>
        /\ ReturnsToolError
        /\ Embeds(returned[1].value.v.error, raised[1].text)

\* C7 as amended: every caught failure, and every missing marker, is returned
\* once as the ToolError of the same invocation; the error string embeds the
\* text of the failure when it is a transport failure (httpx.HTTPError), and
\* is a fixed message without that text when it is a ValueError.
C7_FailureReportedOnce ==
    (ForecastDone /\ (Caught \/ MarkerNotFound)) =>
        /\ ReturnsToolError
        /\ Len(raised) <= 1
        /\ Caught =>
              (Embeds(returned[1].value.v.error, raised[1].text)
                  <=> raised[1].class \in HTTPErrorClasses)

\* a 404 answer came back as a ToolError carrying the text of the exception
C7_Witness ==
    /\ ForecastDone
    /\ response.kind = "response"
    /\ response.status_code = 404
    /\ raised = <<HTTPStatusError(response)>>
    /\ ReturnsToolError
    /\ returned[1].value.v.error = <<"API request failed: ", "Client error for url">>

\* C8: a returned value has a top-level "error" key exactly when the
\* invocation failed.
C8_ErrorKeyIffFailed ==
    (ForecastDone /\ Len(returned) = 1 /\ returned[1].kind = "return") =>
        (HasErrorKey(returned[1].value) <=> Failed)

FileOf(tool) ==
    IF tool = "get_surf_spots_coordinates" THEN "surf-spots.json" ELSE "surf-preferences.json"

\* C9: an invocation of a reference-file tool leaves the files as they are
\* and returns the text its file holds at that moment, also after edits made
\* since the process started.
C9_ReturnsCurrentContents ==
    [][(lastEvent' = "call" /\ call'.tool \in FileTools) =>
            /\ files' = files
            /\ call'.lat = << >> /\ call'.lng = << >>
            /\ files[FileOf(call'.tool)] # Missing =>
                  returned' = <<Return([t |-> "text", v |-> files[FileOf(call'.tool)]])>>]_vars

\* the spots file was edited after the start and the call returned the new text
C9_Witness ==
    /\ lastEvent = "call"
    /\ call.tool = "get_surf_spots_coordinates"
    /\ files["surf-spots.json"] # Missing
    /\ loaded["surf-spots.json"] # Missing
    /\ files["surf-spots.json"] # loaded["surf-spots.json"]
    /\ returned[1].kind = "return"
    /\ returned[1].value.v = files["surf-spots.json"]

====
